---- MODULE Spec2Model ----
(***************************************************************************)
(* Model of thredds/aorc-adding-spatial-metadata.ipynb: the notebook's     *)
(* code cells run top to bottom on the two opened datasets.  Each code     *)
(* cell is one action; an exception raised inside a cell stops the run.    *)
(*                                                                         *)
(* Text is a sequence of characters.  The two axis tokens west_east and    *)
(* south_north are atomic characters of that alphabet; the other           *)
(* characters are "," , the decimal digits and the blank.                  *)
(***************************************************************************)
EXTENDS Integers, Sequences, FiniteSets, TLC

VARIABLES ds, ds_meta, GSL_westeast, GSL_southnorth, x_index, y_index,
          leny, x, y, X, Y, lon, lat, pc, err, stdout, bound

vars == <<ds, ds_meta, GSL_westeast, GSL_southnorth, x_index, y_index,
          leny, x, y, X, Y, lon, lat, pc, err, stdout, bound>>

(* ------------------------------ bounds -------------------------------- *)

\* longest history, counted in fragments, of the free-text family
MaxFrags == 3
\* largest offset written in a history of the well-formed family
MaxIdx == 2
\* longest coordinate array of the reference template
MaxRef == 3
\* largest row / column dimension size of the target grid
MaxDim == 2
\* size of the target grid's time dimension
NTimes == 1

(* ------------------------------- text --------------------------------- *)

Digits == <<"0", "1", "2", "3", "4", "5", "6", "7", "8", "9">>

IsDigit(c) == \E i \in 1..10 : Digits[i] = c

DigitVal(c) == (CHOOSE i \in 1..10 : Digits[i] = c) - 1

\* Python's None, and a str value
None == [isNone |-> TRUE, str |-> <<>>]

Str(s) == [isNone |-> FALSE, str |-> s]

\* length of the longest run of digits of s that starts at position p (\d+, greedy)
RECURSIVE DigitRun(_, _)
DigitRun(s, p) ==
  IF p <= Len(s) /\ IsDigit(s[p]) THEN 1 + DigitRun(s, p + 1) ELSE 0

\* axis,(\d+),(\d+) matched at position p: the position after the match, 0 if none
MatchEnd(axis, s, p) ==
  IF p + 1 <= Len(s) /\ s[p] = axis /\ s[p + 1] = ","
  THEN LET n1 == DigitRun(s, p + 2)
           q  == p + 2 + n1
       IN IF n1 >= 1 /\ q <= Len(s) /\ s[q] = ","
          THEN LET n2 == DigitRun(s, q + 1)
               IN IF n2 >= 1 THEN q + 1 + n2 ELSE 0
          ELSE 0
  ELSE 0

\* re.search scanning rightwards from position p: <<start, end>> of the first match
RECURSIVE SearchFrom(_, _, _)
SearchFrom(axis, s, p) ==
  IF p > Len(s) THEN <<0, 0>>
  ELSE IF MatchEnd(axis, s, p) # 0 THEN <<p, MatchEnd(axis, s, p)>>
  ELSE SearchFrom(axis, s, p + 1)

\* re.search scanning leftwards from position p: the last match instead of the first
RECURSIVE SearchLastFrom(_, _, _)
SearchLastFrom(axis, s, p) ==
  IF p < 1 THEN <<0, 0>>
  ELSE IF MatchEnd(axis, s, p) # 0 THEN <<p, MatchEnd(axis, s, p)>>
  ELSE SearchLastFrom(axis, s, p - 1)

SearchLast(axis, s) == SearchLastFrom(axis, s, Len(s))

\* re.search(pattern, s)
Search(axis, s) == SearchFrom(axis, s, 1)

\* pattern_lookup(pattern, s): match.group(0), or None after printing
pattern_lookup(axis, s) ==
  LET m == Search(axis, s)
  IN IF m[1] # 0 THEN Str(SubSeq(s, m[1], m[2] - 1)) ELSE None

\* what pattern_lookup prints
LookupOutput(axis, s) ==
  IF Search(axis, s)[1] # 0 THEN <<>> ELSE <<"No match found.">>

\* str.split(',')
RECURSIVE Split(_)
Split(s) ==
  IF \E i \in 1..Len(s) : s[i] = ","
  THEN LET i == CHOOSE k \in 1..Len(s) :
                  s[k] = "," /\ \A j \in 1..(k - 1) : s[j] # ","
       IN <<SubSeq(s, 1, i - 1)>> \o Split(SubSeq(s, i + 1, Len(s)))
  ELSE <<s>>

\* GSL.split(',')[1:]
IndexStrings(g) == Tail(Split(g))

\* int(d) read with the digits in the wrong order
RECURSIVE IntReversed(_)
IntReversed(d) ==
  IF Len(d) = 0 THEN 0 ELSE DigitVal(Head(d)) + 10 * IntReversed(Tail(d))

\* int(d) of a string of decimal digits
RECURSIVE int(_)
int(d) ==
  IF Len(d) = 0 THEN 0
  ELSE 10 * int(SubSeq(d, 1, Len(d) - 1)) + DigitVal(d[Len(d)])

(* ------------------------------ arrays -------------------------------- *)

Min(a, b) == IF a < b THEN a ELSE b

Max(a, b) == IF a > b THEN a ELSE b

\* a slice bound as Python reads it: negative counts from the end, then clamped
SliceBound(i, n) == IF i < 0 THEN Max(i + n, 0) ELSE Min(i, n)

\* a[start : stop] with 0-based start and exclusive stop
PySlice(a, start, stop) ==
  SubSeq(a, SliceBound(start, Len(a)) + 1, SliceBound(stop, Len(a)))

\* the column slice with the end offset taken as exclusive
SliceXExclusive(meta_x, xi) == PySlice(meta_x, int(xi[1]), int(xi[2]))

\* ds_meta.x[int(x_index[0]) : int(x_index[1]) + 1].values
SliceX(meta_x, xi) == PySlice(meta_x, int(xi[1]), int(xi[2]) + 1)

\* the row slice taken without turning the row offsets around
SliceYUnflipped(meta_y, n, yi) == PySlice(meta_y, int(yi[1]), int(yi[2]) + 1)

\* ds_meta.y[leny - int(y_index[1]) - 1 : leny - int(y_index[0])].values
SliceY(meta_y, n, yi) == PySlice(meta_y, n - int(yi[2]) - 1, n - int(yi[1]))

\* numpy.meshgrid(x, y, indexing='ij'): rows follow x and columns follow y
MeshgridIJ(xs, ys) ==
  [X |-> [shape |-> <<Len(xs), Len(ys)>>,
          data  |-> [i \in 1..Len(xs) |-> [j \in 1..Len(ys) |-> xs[i]]]],
   Y |-> [shape |-> <<Len(xs), Len(ys)>>,
          data  |-> [i \in 1..Len(xs) |-> [j \in 1..Len(ys) |-> ys[j]]]]]

\* numpy.meshgrid(x, y): a 2-D array is its shape and its rows; with the default
\* indexing='xy' the rows follow y and the columns follow x
Meshgrid(xs, ys) ==
  [X |-> [shape |-> <<Len(ys), Len(xs)>>,
          data  |-> [i \in 1..Len(ys) |-> [j \in 1..Len(xs) |-> xs[j]]]],
   Y |-> [shape |-> <<Len(ys), Len(xs)>>,
          data  |-> [i \in 1..Len(ys) |-> [j \in 1..Len(xs) |-> ys[i]]]]]

\* the longitude and latitude of a projected point: the inverse Lambert conformal
\* conic map of the fixed wrf_proj, kept as a term over its two arguments
ToLon(px, py) == [of |-> "lon", x |-> px, y |-> py]

ToLat(px, py) == [of |-> "lat", x |-> px, y |-> py]

\* transformer.transform(X, Y): pointwise, the shape kept
Transform(mx, my) ==
  [lon |-> [shape |-> mx.shape,
            data  |-> [i \in 1..mx.shape[1] |-> [j \in 1..mx.shape[2] |->
                         ToLon(mx.data[i][j], my.data[i][j])]]],
   lat |-> [shape |-> mx.shape,
            data  |-> [i \in 1..mx.shape[1] |-> [j \in 1..mx.shape[2] |->
                         ToLat(mx.data[i][j], my.data[i][j])]]]]

(* ------------------------------ datasets ------------------------------ *)

\* the well-known text of the template's Lambert conformal conic system, and a
\* spatial_ref attribute that is no reference system
WktLcc == "PROJCS[Lambert_Conformal_Conic]"

WktMalformed == "not a reference system"

\* the target grid as opened: index dimensions only, no coordinates
OpenedDs(h, rows, cols) ==
  [attrs |-> [history |-> h],
   dims  |-> ("Time" :> NTimes) @@ ("south_north" :> rows) @@ ("west_east" :> cols),
   coords |-> <<>>,
   data_vars |-> [LWDOWN |-> [dims |-> <<"Time", "south_north", "west_east">>,
                              grid_mapping |-> "none"]],
   rio |-> [crs |-> "none", x_dim |-> "none", y_dim |-> "none"]]

\* the template as opened: projected coordinates 0, 1, ... and its spatial_ref
OpenedMeta(w, h, wkt) ==
  [x |-> [i \in 1..w |-> i - 1], y |-> [i \in 1..h |-> i - 1], spatial_ref |-> wkt]

Renamed(n) ==
  IF n = "south_north" THEN "y"
  ELSE IF n = "west_east" THEN "x"
  ELSE IF n = "Time" THEN "time" ELSE n

\* ds.rename_dims(south_north='y', west_east='x', Time='time')
RenameDims(d) ==
  [d EXCEPT
     !.dims = ("time" :> d.dims["Time"]) @@ ("y" :> d.dims["south_north"])
              @@ ("x" :> d.dims["west_east"]),
     !.data_vars = [v \in DOMAIN d.data_vars |->
        [d.data_vars[v] EXCEPT
           !.dims = [k \in 1..Len(d.data_vars[v].dims) |->
                       Renamed(d.data_vars[v].dims[k])]]]]

\* whether an array of this shape fits the dataset's dimensions of these names
Fits(d, dims, shape) ==
  \A k \in 1..Len(dims) : dims[k] \in DOMAIN d.dims => d.dims[dims[k]] = shape[k]

\* a coordinate variable as assign_coords makes it: new, without attributes
NewCoord(dims, data) == [dims |-> dims, data |-> data, attrs |-> <<>>]

\* assign_coords that refuses a name the dataset already has
AssignCoordOnce(d, name, dims, shape, data) ==
  IF Fits(d, dims, shape) /\ name \notin DOMAIN d.coords
  THEN [ok |-> TRUE, ds |-> [d EXCEPT !.coords = (name :> NewCoord(dims, data)) @@ @]]
  ELSE [ok |-> FALSE, ds |-> d]

\* ds.assign_coords(name = (dims, data)): the variable of that name is replaced;
\* a size that conflicts with the dataset's dimension raises ValueError
AssignCoord(d, name, dims, shape, data) ==
  IF Fits(d, dims, shape)
  THEN [ok |-> TRUE, ds |-> [d EXCEPT !.coords = (name :> NewCoord(dims, data)) @@ @]]
  ELSE [ok |-> FALSE, ds |-> d]

\* the four assign_coords statements in order; the first that raises ends the cell
AssignCoordsCell(d, lo, la, xs, ys) ==
  LET r1 == AssignCoord(d, "lon", <<"y", "x">>, lo.shape, lo.data)
      r2 == AssignCoord(r1.ds, "lat", <<"y", "x">>, la.shape, la.data)
      r3 == AssignCoord(r2.ds, "x", <<"x">>, <<Len(xs)>>, xs)
      r4 == AssignCoord(r3.ds, "y", <<"y">>, <<Len(ys)>>, ys)
  IN IF ~r1.ok THEN r1
     ELSE IF ~r2.ok THEN r2
     ELSE IF ~r3.ok THEN r3 ELSE r4

\* ds.<coord>.attrs[key] = value
SetAttr(d, coord, key, value) ==
  [d EXCEPT !.coords[coord].attrs = (key :> value) @@ @]

\* the cell that sets the CF attributes of x, y, lon and lat
CoordAttrsCell(d) ==
  LET x1 == SetAttr(d, "x", "axis", "X")
      x2 == SetAttr(x1, "x", "standard_name", "projection_x_coordinate")
      x3 == SetAttr(x2, "x", "long_name", "x-coordinate in projected coordinate system")
      x4 == SetAttr(x3, "x", "resolution", "1000.")
      y1 == SetAttr(x4, "y", "axis", "Y")
      y2 == SetAttr(y1, "y", "standard_name", "projection_y_coordinate")
      y3 == SetAttr(y2, "y", "long_name", "y-coordinate in projected coordinate system")
      y4 == SetAttr(y3, "y", "resolution", "1000.")
      o1 == SetAttr(y4, "lon", "units", "degrees_east")
      o2 == SetAttr(o1, "lon", "standard_name", "longitude")
      o3 == SetAttr(o2, "lon", "long_name", "longitude")
      a1 == SetAttr(o3, "lat", "units", "degrees_north")
      a2 == SetAttr(a1, "lat", "standard_name", "latitude")
  IN SetAttr(a2, "lat", "long_name", "latitude")

\* rio.write_crs(wkt, inplace=True): the grid-mapping coordinate spatial_ref with
\* the reference system's text, named by every data variable
WriteCrs(d, wkt) ==
  [d EXCEPT
     !.rio.crs = wkt,
     !.coords = ("spatial_ref" :>
                   [dims |-> <<>>, data |-> 0,
                    attrs |-> [crs_wkt |-> wkt, spatial_ref |-> wkt]]) @@ @,
     !.data_vars = [v \in DOMAIN @ |-> [@[v] EXCEPT !.grid_mapping = "spatial_ref"]]]

\* rio.set_spatial_dims(x_dim="x", y_dim="y", inplace=True)
SetSpatialDims(d) == [d EXCEPT !.rio.x_dim = "x", !.rio.y_dim = "y"]

\* rio.write_coordinate_system(inplace=True): the axis attributes of the spatial
\* dimensions' coordinates, for a projected reference system
WriteCoordinateSystem(d) ==
  LET x1 == SetAttr(d, d.rio.x_dim, "axis", "X")
      x2 == SetAttr(x1, d.rio.x_dim, "long_name", "x coordinate of projection")
      x3 == SetAttr(x2, d.rio.x_dim, "standard_name", "projection_x_coordinate")
      x4 == SetAttr(x3, d.rio.x_dim, "units", "metre")
      y1 == SetAttr(x4, d.rio.y_dim, "axis", "Y")
      y2 == SetAttr(y1, d.rio.y_dim, "long_name", "y coordinate of projection")
      y3 == SetAttr(y2, d.rio.y_dim, "standard_name", "projection_y_coordinate")
  IN SetAttr(y3, d.rio.y_dim, "units", "metre")

\* the write_crs cell: a text that is no reference system raises CRSError before
\* anything is written
CrsCell(d, wkt) ==
  IF wkt = WktLcc
  THEN [ok |-> TRUE, ds |-> WriteCoordinateSystem(SetSpatialDims(WriteCrs(d, wkt)))]
  ELSE [ok |-> FALSE, ds |-> d]

\* the annotation step as one function: the assign_coords cell, the attributes
\* cell and the write_crs cell
Annotate(d, lo, la, xs, ys, wkt) ==
  LET a == AssignCoordsCell(d, lo, la, xs, ys)
  IN IF ~a.ok THEN a ELSE CrsCell(CoordAttrsCell(a.ds), wkt)

(* ------------------------------- inputs ------------------------------- *)

\* n in decimal
RECURSIVE Dec(_)
Dec(n) ==
  IF n < 10 THEN <<Digits[n + 1]>> ELSE Dec(n \div 10) \o <<Digits[(n % 10) + 1]>>

Axes == {"west_east", "south_north"}

\* axis,a,b as a history records a subset offset
Record(axis, a, b) == <<axis, ",">> \o a \o <<",">> \o b

\* the pieces a free-text history is put together from: offset records, a
\* record cut short, a blank, a stray digit (which lengthens the number before
\* it) and a stray comma
FragmentDigits == {<<"0">>, <<"1">>}

Fragments ==
  {Record(ax, a, b) : ax \in Axes, a \in FragmentDigits, b \in FragmentDigits}
  \cup {<<ax, ",", "1">> : ax \in Axes}
  \cup {<<" ">>, <<"1">>, <<",">>}

RECURSIVE Texts(_)
Texts(n) ==
  IF n = 0 THEN {<<>>}
  ELSE LET T == Texts(n - 1) IN T \cup {t \o f : t \in T, f \in Fragments}

\* a history as the subsetting tool writes it: one record per axis
WrittenHistory(a, b, c, d) ==
  <<" ">> \o Record("west_east", Dec(a), Dec(b)) \o <<" ">>
          \o Record("south_north", Dec(c), Dec(d)) \o <<" ">>

NoArray == [shape |-> <<0, 0>>, data |-> <<>>]

NoError == [type |-> "none", axis |-> ""]

\* the notebook after both datasets are opened and pattern_lookup is defined
Opened(h, rows, cols, w, hh, wkt) ==
  /\ ds = OpenedDs(h, rows, cols)
  /\ ds_meta = OpenedMeta(w, hh, wkt)
  /\ GSL_westeast = None /\ GSL_southnorth = None
  /\ x_index = <<>> /\ y_index = <<>>
  /\ leny = 0 /\ x = <<>> /\ y = <<>>
  /\ X = NoArray /\ Y = NoArray /\ lon = NoArray /\ lat = NoArray
  /\ pc = "extract" /\ err = NoError /\ stdout = <<>>
  /\ bound = {"ds", "ds_meta"}

\* free-text histories against one target grid and one template
InitFreeText ==
  \E h \in Texts(MaxFrags) : Opened(h, MaxDim, MaxDim, MaxRef, MaxRef, WktLcc)

\* written histories with every offset, target size and template size
InitWritten ==
  \E a \in 0..MaxIdx, b \in 0..MaxIdx, c \in 0..MaxIdx, d \in 0..MaxIdx,
     rows \in 1..MaxDim, cols \in 1..MaxDim, w \in 1..MaxRef, hh \in 1..MaxRef :
       Opened(WrittenHistory(a, b, c, d), rows, cols, w, hh, WktLcc)

\* targets cut from the template's corner, the template carrying either
\* spatial_ref text
InitTemplate ==
  \E rows \in 1..MaxDim, cols \in 1..MaxDim, wkt \in {WktLcc, WktMalformed} :
       Opened(WrittenHistory(0, cols - 1, 0, rows - 1), rows, cols, MaxDim, MaxDim, wkt)

\* two-digit offsets: a 4 x 3 target cut from a template of 30 rows and 20
\* columns, and rows 2..5 of a template of 10 rows
InitScenario ==
  \/ Opened(WrittenHistory(10, 12, 20, 23), 4, 3, 20, 30, WktLcc)
  \/ Opened(WrittenHistory(0, 0, 2, 5), 4, 1, 1, 10, WktLcc)

Init == InitFreeText \/ InitWritten \/ InitTemplate \/ InitScenario

(* ------------------------------- cells -------------------------------- *)

AttributeError == [type |-> "AttributeError", axis |-> ""]

ValueError == [type |-> "ValueError", axis |-> ""]

CRSError == [type |-> "CRSError", axis |-> ""]

\* the offset extraction cell: both lookups, then the two split statements; the
\* split of a None raises AttributeError and ends the cell there
Extract ==
  /\ pc = "extract"
  /\ GSL_westeast' = pattern_lookup("west_east", ds.attrs.history)
  /\ GSL_southnorth' = pattern_lookup("south_north", ds.attrs.history)
  /\ stdout' = stdout \o LookupOutput("west_east", ds.attrs.history)
                      \o LookupOutput("south_north", ds.attrs.history)
  /\ IF GSL_southnorth'.isNone
     THEN /\ UNCHANGED <<x_index, y_index>>
          /\ bound' = bound \cup {"GSL_westeast", "GSL_southnorth"}
          /\ err' = AttributeError /\ pc' = "failed"
     ELSE IF GSL_westeast'.isNone
     THEN /\ y_index' = IndexStrings(GSL_southnorth'.str)
          /\ UNCHANGED x_index
          /\ bound' = bound \cup {"GSL_westeast", "GSL_southnorth", "y_index"}
          /\ err' = AttributeError /\ pc' = "failed"
     ELSE /\ y_index' = IndexStrings(GSL_southnorth'.str)
          /\ x_index' = IndexStrings(GSL_westeast'.str)
          /\ bound' = bound \cup {"GSL_westeast", "GSL_southnorth", "y_index", "x_index"}
          /\ err' = err /\ pc' = "slice"
  /\ UNCHANGED <<ds, ds_meta, leny, x, y, X, Y, lon, lat>>

\* the reference grid slicing cell
Slice ==
  /\ pc = "slice"
  /\ leny' = Len(ds_meta.y)
  /\ x' = SliceX(ds_meta.x, x_index)
  /\ y' = SliceY(ds_meta.y, leny', y_index)
  /\ bound' = bound \cup {"leny", "x", "y"}
  /\ pc' = "rename"
  /\ UNCHANGED <<ds, ds_meta, GSL_westeast, GSL_southnorth, x_index, y_index,
                 X, Y, lon, lat, err, stdout>>

\* the rename_dims cell
Rename ==
  /\ pc = "rename"
  /\ ds' = RenameDims(ds)
  /\ pc' = "reproject"
  /\ UNCHANGED <<ds_meta, GSL_westeast, GSL_southnorth, x_index, y_index,
                 leny, x, y, X, Y, lon, lat, err, stdout, bound>>

\* the meshgrid and transform cell
Reproject ==
  /\ pc = "reproject"
  /\ X' = Meshgrid(x, y).X
  /\ Y' = Meshgrid(x, y).Y
  /\ lon' = Transform(X', Y').lon
  /\ lat' = Transform(X', Y').lat
  /\ bound' = bound \cup {"X", "Y", "lon", "lat"}
  /\ pc' = "assign"
  /\ UNCHANGED <<ds, ds_meta, GSL_westeast, GSL_southnorth, x_index, y_index,
                 leny, x, y, err, stdout>>

\* the assign_coords cell
AssignCoords ==
  /\ pc = "assign"
  /\ ds' = AssignCoordsCell(ds, lon, lat, x, y).ds
  /\ IF AssignCoordsCell(ds, lon, lat, x, y).ok
     THEN err' = err /\ pc' = "attrs"
     ELSE err' = ValueError /\ pc' = "failed"
  /\ UNCHANGED <<ds_meta, GSL_westeast, GSL_southnorth, x_index, y_index,
                 leny, x, y, X, Y, lon, lat, stdout, bound>>

\* the coordinate attributes cell
CoordAttrs ==
  /\ pc = "attrs"
  /\ ds' = CoordAttrsCell(ds)
  /\ pc' = "crs"
  /\ UNCHANGED <<ds_meta, GSL_westeast, GSL_southnorth, x_index, y_index,
                 leny, x, y, X, Y, lon, lat, err, stdout, bound>>

\* the write_crs cell
WriteCrsCell ==
  /\ pc = "crs"
  /\ ds' = CrsCell(ds, ds_meta.spatial_ref).ds
  /\ IF CrsCell(ds, ds_meta.spatial_ref).ok
     THEN err' = err /\ pc' = "done"
     ELSE err' = CRSError /\ pc' = "failed"
  /\ UNCHANGED <<ds_meta, GSL_westeast, GSL_southnorth, x_index, y_index,
                 leny, x, y, X, Y, lon, lat, stdout, bound>>

Next ==
  \/ Extract
  \/ Slice
  \/ Rename
  \/ Reproject
  \/ AssignCoords
  \/ CoordAttrs
  \/ WriteCrsCell

Spec == Init /\ [][Next]_vars

\* the runs on free-text histories only
InitText == InitFreeText \/ InitScenario

SpecText == InitText /\ [][Next]_vars

(* ------------------- what a history says, read directly ---------------- *)

history == ds.attrs.history

\* the number of digits that stand at positions p, p+1, ... of s
DigitsAt(s, p) ==
  CHOOSE k \in 0..Len(s) :
    /\ \A j \in 0..(k - 1) : p + j <= Len(s) /\ IsDigit(s[p + j])
    /\ (p + k > Len(s) \/ ~IsDigit(s[p + k]))

\* an axis-labelled offset substring axis,digits,digits starts at position p
OccursAt(axis, s, p) ==
  /\ p + 1 <= Len(s) /\ s[p] = axis /\ s[p + 1] = ","
  /\ LET n1 == DigitsAt(s, p + 2)
     IN /\ n1 >= 1
        /\ p + 2 + n1 <= Len(s)
        /\ s[p + 2 + n1] = ","
        /\ DigitsAt(s, p + 3 + n1) >= 1

Occurrences(axis, s) == {p \in 1..Len(s) : OccursAt(axis, s, p)}

Leftmost(axis, s) ==
  LET occ == Occurrences(axis, s)
  IN CHOOSE p \in occ : \A q \in occ : p <= q

\* the two digit strings of the substring that starts at p, and all its text
FirstDigits(s, p) == SubSeq(s, p + 2, p + 1 + DigitsAt(s, p + 2))

SecondDigits(s, p) ==
  LET n1 == DigitsAt(s, p + 2)
  IN SubSeq(s, p + 3 + n1, p + 2 + n1 + DigitsAt(s, p + 3 + n1))

TextAt(s, p) ==
  LET n1 == DigitsAt(s, p + 2)
  IN SubSeq(s, p, p + 2 + n1 + DigitsAt(s, p + 3 + n1))

RECURSIVE Pow10(_)
Pow10(k) == IF k = 0 THEN 1 ELSE 10 * Pow10(k - 1)

\* the integer a digit string writes: each digit times the power of ten of its
\* place, summed from position i on
RECURSIVE PlaceSum(_, _)
PlaceSum(d, i) ==
  IF i > Len(d) THEN 0
  ELSE DigitVal(d[i]) * Pow10(Len(d) - i) + PlaceSum(d, i + 1)

WrittenValue(d) == PlaceSum(d, 1)

\* the offsets of the leftmost substring of an axis: <<start, end>>
Offsets(axis) ==
  LET p == Leftmost(axis, history)
  IN <<WrittenValue(FirstDigits(history, p)), WrittenValue(SecondDigits(history, p))>>

col_start == Offsets("west_east")[1]

col_end == Offsets("west_east")[2]

row_start == Offsets("south_north")[1]

row_end == Offsets("south_north")[2]

BothPresent == \A ax \in Axes : Occurrences(ax, history) # {}

MissingAxes == {ax \in Axes : Occurrences(ax, history) = {}}

W_ref == Len(ds_meta.x)

H_ref == Len(ds_meta.y)

\* the target grid's row and column dimension sizes, before or after the rename
TargetRows ==
  IF "y" \in DOMAIN ds.dims THEN ds.dims["y"] ELSE ds.dims["south_north"]

TargetCols ==
  IF "x" \in DOMAIN ds.dims THEN ds.dims["x"] ELSE ds.dims["west_east"]

\* the extraction cell has run / has run to its end
Extracted == pc # "extract"

ExtractionDone == {"x_index", "y_index"} \subseteq bound

Sliced == "y" \in bound

Meshed == "lat" \in bound

(* ------------------------------- claims ------------------------------- *)

\* C1: when the history lacks the offset substring of the row axis or of the
\* column axis, the extraction fails with a MetadataParseError that names an
\* axis that could not be located, and the slicing cell is never run.
C1_MissingPatternRaisesMetadataParseError ==
  (Extracted /\ MissingAxes # {}) =>
     /\ err.type = "MetadataParseError"
     /\ err.axis \in MissingAxes
     /\ ~Sliced

\* C2: once the slices are taken, the run goes on only if len(x) is the target's
\* column size and len(y) its row size; otherwise it has failed with
\* DimensionMismatchError, and no annotated dataset with coordinate lengths
\* that differ from its dimension sizes exists.
C2_MismatchRaisesDimensionMismatchError ==
  Sliced =>
    IF Len(x) = TargetCols /\ Len(y) = TargetRows
    THEN err.type \notin {"DimensionMismatchError", "ValueError"}
    ELSE /\ err.type = "DimensionMismatchError"
         /\ pc = "failed"
         /\ DOMAIN ds.coords = {}

\* C3: for row offsets with 0 <= row_start <= row_end < H_ref the row slice is
\* the template's row coordinates at the 0-based indices H_ref-row_end-1 up to
\* and including H_ref-row_start-1, in that order, so row_end-row_start+1 long.
C3_RowSliceElements ==
  Sliced =>
    LET rs == row_start
        re == row_end
    IN (rs <= re /\ re < H_ref) =>
         /\ Len(y) = re - rs + 1
         /\ \A i \in 1..Len(y) : y[i] = ds_meta.y[(H_ref - re - 1) + i]

\* rows 2..5 of the template 0,1,...,9 have been sliced to 4,5,6,7
C3_Witness ==
  /\ Sliced /\ ds_meta.y = <<0, 1, 2, 3, 4, 5, 6, 7, 8, 9>>
  /\ row_start = 2 /\ row_end = 5 /\ y = <<4, 5, 6, 7>>

\* C4: for in-range row offsets the coordinate at target row i (0-based) is the
\* template's row coordinate at index H_ref-1-(row_start+i): row 0 carries the
\* last matching template row, both in the slice y and in the coordinate y the
\* dataset is given.
C4_RowZeroIsLastTemplateRow ==
  Sliced =>
    LET rs == row_start
        re == row_end
    IN (rs <= re /\ re < H_ref) =>
         /\ \A i \in 0..(Len(y) - 1) : y[i + 1] = ds_meta.y[(H_ref - 1 - (rs + i)) + 1]
         /\ ("y" \in DOMAIN ds.coords => ds.coords["y"].data = y)

\* C5: for column offsets with 0 <= col_start <= col_end < W_ref the column slice
\* has x[i] = col_coords[col_start+i] for 0 <= i <= col_end-col_start and is
\* col_end-col_start+1 long.
C5_ColumnSliceElements ==
  Sliced =>
    LET cs == col_start
        ce == col_end
    IN (cs <= ce /\ ce < W_ref) =>
         /\ Len(x) = ce - cs + 1
         /\ \A i \in 0..(ce - cs) : x[i + 1] = ds_meta.x[(cs + i) + 1]

\* more than one column sliced, not from the template's first column
C5_Witness ==
  /\ Sliced /\ col_start >= 1 /\ col_start < col_end /\ col_end < W_ref
  /\ Len(x) = col_end - col_start + 1

\* C6 as stated: when both offset substrings are in the history, the extraction
\* gives for each axis two non-negative integers, those written after the axis
\* token, with start <= end.
C6_OffsetsWrittenAndOrdered ==
  (Extracted /\ BothPresent) =>
     /\ ExtractionDone
     /\ Len(x_index) = 2 /\ Len(y_index) = 2
     /\ <<int(x_index[1]), int(x_index[2])>> = Offsets("west_east")
     /\ <<int(y_index[1]), int(y_index[2])>> = Offsets("south_north")
     /\ \A k \in 1..2 : int(x_index[k]) >= 0 /\ int(y_index[k]) >= 0
     /\ int(x_index[1]) <= int(x_index[2])
     /\ int(y_index[1]) <= int(y_index[2])

\* C6 amended: when both offset substrings are in the history, the extraction
\* gives for each axis two non-negative integers, those written after the axis
\* token in its leftmost substring, in the order written (start <= end only
\* when the history writes them so).
C6_OffsetsWritten ==
  (Extracted /\ BothPresent) =>
     /\ ExtractionDone
     /\ Len(x_index) = 2 /\ Len(y_index) = 2
     /\ <<int(x_index[1]), int(x_index[2])>> = Offsets("west_east")
     /\ <<int(y_index[1]), int(y_index[2])>> = Offsets("south_north")
     /\ \A k \in 1..2 : int(x_index[k]) >= 0 /\ int(y_index[k]) >= 0

\* two-digit offsets extracted from a history with both substrings
C6_Witness ==
  /\ ExtractionDone /\ BothPresent
  /\ x_index = <<Dec(10), Dec(12)>> /\ col_start = 10 /\ col_end = 12
  /\ int(y_index[1]) = 20 /\ int(y_index[2]) = 23

\* C7: when a cell fails, the dataset variable holds nothing of what a successful
\* run adds: no renamed axis, no coordinate, no reference system.
C7_NoPartialResultOnFailure ==
  (err.type # "none") =>
     /\ DOMAIN ds.dims = {"Time", "south_north", "west_east"}
     /\ DOMAIN ds.coords = {}
     /\ ds.rio.crs = "none"
     /\ \A v \in DOMAIN ds.data_vars : ds.data_vars[v].grid_mapping = "none"

\* C8: on the annotated dataset, the annotation step applied again with the same
\* lon, lat, x, y and well-known text succeeds and gives the very same dataset:
\* same dimensions, coordinates and attributes.
C8_AnnotationIdempotent ==
  (pc = "done") =>
     Annotate(ds, lon, lat, x, y, ds_meta.spatial_ref) = [ok |-> TRUE, ds |-> ds]

\* the annotation has been applied: coordinates, their attributes and the
\* reference system are on the dataset
C8_Witness ==
  /\ pc = "done"
  /\ DOMAIN ds.coords = {"lon", "lat", "x", "y", "spatial_ref"}
  /\ ds.coords["x"].attrs["units"] = "metre"
  /\ ds.coords["lon"].attrs["units"] = "degrees_east"
  /\ ds.rio.crs = WktLcc

\* a 2-D array of r rows of c elements each
HasShape(a, r, c) ==
  /\ a.shape = <<r, c>>
  /\ Len(a.data) = r
  /\ \A i \in 1..r : Len(a.data[i]) = c

\* C9: the meshed coordinates and the longitude and latitude arrays have shape
\* (len(y), len(x)); the point at row i, column j is (x[j], y[i]); attached on
\* ['y', 'x'] they line up with the target grid's row and column sizes.
C9_MeshShapeAndAlignment ==
  Meshed =>
     /\ HasShape(X, Len(y), Len(x)) /\ HasShape(Y, Len(y), Len(x))
     /\ HasShape(lon, Len(y), Len(x)) /\ HasShape(lat, Len(y), Len(x))
     /\ \A i \in 1..Len(y) : \A j \in 1..Len(x) :
          /\ X.data[i][j] = x[j] /\ Y.data[i][j] = y[i]
          /\ lon.data[i][j] = ToLon(x[j], y[i])
          /\ lat.data[i][j] = ToLat(x[j], y[i])
     /\ ("lat" \in DOMAIN ds.coords =>
          /\ ds.coords["lon"].dims = <<"y", "x">> /\ ds.coords["lon"].data = lon.data
          /\ ds.coords["lat"].dims = <<"y", "x">> /\ ds.coords["lat"].data = lat.data
          /\ lon.shape = <<ds.dims["y"], ds.dims["x"]>>)

\* a 4 x 3 mesh attached to the dataset
C9_Witness ==
  /\ Meshed /\ "lat" \in DOMAIN ds.coords
  /\ Len(y) = 4 /\ Len(x) = 3 /\ lon.shape = <<4, 3>>

\* C10: when an axis has more than one offset substring in the history, the
\* lookup returns the leftmost one, without failing, and the slices are taken
\* with the two integers of that leftmost substring.
C10_LeftmostOccurrenceUsed ==
  /\ \A ax \in Axes :
       (Extracted /\ Cardinality(Occurrences(ax, history)) >= 2) =>
          (IF ax = "west_east" THEN GSL_westeast ELSE GSL_southnorth)
             = Str(TextAt(history, Leftmost(ax, history)))
  /\ (Sliced /\ \E ax \in Axes : Cardinality(Occurrences(ax, history)) >= 2) =>
       LET c == Offsets("west_east")
           r == Offsets("south_north")
       IN /\ x = SliceX(ds_meta.x, <<Dec(c[1]), Dec(c[2])>>)
          /\ y = SliceY(ds_meta.y, H_ref, <<Dec(r[1]), Dec(r[2])>>)

\* two column substrings with different offsets, and the slices taken
C10_Witness ==
  /\ Sliced
  /\ \E p \in Occurrences("west_east", history) :
       /\ p # Leftmost("west_east", history)
       /\ WrittenValue(SecondDigits(history, p)) # col_end
       /\ Len(SliceX(ds_meta.x, <<FirstDigits(history, p), SecondDigits(history, p)>>))
            # Len(x)

====
